---------------------------- MODULE Spec2Model ----------------------------
(***************************************************************************)
(* A model of the OverlayAPI class of ffxiv-overlay-api                    *)
(* (src/unnamed/part_000, lines 450-770): the bridge between an overlay    *)
(* page and the OverlayPlugin host, over a WebSocket (socket mode) or      *)
(* over window.OverlayPluginApi (host-callback mode).                      *)
(*                                                                         *)
(* One action models one handler or one public method, run to completion   *)
(* (JavaScript is single threaded: a handler is never interleaved with     *)
(* another one).  The environment (the sockets, the timers, the host       *)
(* object, the log, the promises handed to the caller) is modelled by the  *)
(* variables of the second group below.                                    *)
(***************************************************************************)
EXTENDS Integers, Sequences, FiniteSets, TLC

(***************************************************************************)
(* Bounds of the model.                                                    *)
(***************************************************************************)
MaxCalls == 3       \* calls of callHandler / startEvent by the page
MaxSockets == 2     \* WebSocket objects created (first connection + reconnects)
MaxListeners == 3   \* callbacks in the list of one event type
MaxInbound == 2     \* inbound messages, host events and timer ticks delivered
MaxTimers == 2      \* interval timers started by simulateData

(***************************************************************************)
(* The values the page and the host exchange with the bridge.              *)
(***************************************************************************)
EventTypes == {"CombatData", "ChangeZone"}

\* Values passed as the cb of addListener / removeListener: four
\* functions and one value that is not a function (typeof cb !== 'function').
Functions == {"f1", "fThrow", "fSend", "fUnsub"}
NonCallables == {"notAFunction"}

\* What a subscriber callback does when it is invoked: fThrow throws,
\* fSend calls api.callHandler with a new message and returns, fUnsub
\* calls api.removeListener(msg.type, fUnsub) and returns, f1 returns.
Throws(cb) == cb = "fThrow"
Sends(cb) == cb = "fSend"
Unsubscribes(cb) == cb = "fUnsub"

Undefined == -1     \* an absent rseq field
NoCb == 0           \* an absent cb argument
NoSocket == 0       \* #ws === null

\* The fields of an outbound message object that the bridge reads or writes.
\* ser: JSON.stringify accepts the object (FALSE: it throws, e.g. a cycle).
MsgObject(call, ser, rseq, events) ==
    [call |-> call, ser |-> ser, rseq |-> rseq, events |-> events]

\* JSON.stringify(msg): the wire text carries the call, the events and the
\* rseq the object has at the time of the call; the object's identity and
\* whether it was serializable are not part of the text.
JSONstringify(o) == [call |-> o.call, rseq |-> o.rseq, events |-> o.events]

\* Inbound data of a socket 'message' event: text that JSON.parse rejects,
\* or the text of an object with an optional rseq and an optional type.
\* The rseq values tried are the first two that callHandler allocates and
\* one that it never allocates.
NoType == "none"
UnknownRseq == 99
InboundObjects ==
    [ok : {TRUE}, rseq : {Undefined}, type : EventTypes \cup {NoType}]
    \cup [ok : {TRUE}, rseq : {0, 1, UnknownRseq}, type : {NoType, "CombatData"}]
BadText == [ok |-> FALSE, rseq |-> Undefined, type |-> NoType]
InboundData == InboundObjects \cup {BadText}
NoMessage == [ok |-> FALSE, rseq |-> Undefined, type |-> "nothing"]
\* lastIn: where an inbound message came from, and the message
\* lastOp: the handler or public method of the last step, with the event
\* type and the argument it was called with ("" where it has none)
NoOp == [op |-> "none", ev |-> "", arg |-> ""]
Op(op, ev, arg) == [op |-> op, ev |-> ev, arg |-> arg]
NoInbound == [src |-> "none", msg |-> NoMessage]
Inbound(src, msg) == [src |-> src, msg |-> msg]

\* A broadcast of type 'CombatData'.
CombatDataEvent == [ok |-> TRUE, rseq |-> Undefined, type |-> "CombatData"]

\* A message object as the handlers receive it: the parsed fields, and
\* whether the object has an extendData property (it has none on arrival).
Raw(msg) == [msg |-> msg, extendData |-> FALSE]
NoDelivery == Raw(NoMessage)

(***************************************************************************)
(* extendData(data) (lines 42-161).  For a message of type 'CombatData'    *)
(* it builds the parsed view from data.Encounter and data.Combatant,       *)
(* stores it in the property extendData of data itself (line 158) and      *)
(* returns data; any other message is returned as it is.  The result is    *)
(* the object after the call, which is also the object returned.  (A       *)
(* CombatData message is taken to carry an Encounter, as the host's do;    *)
(* the destructuring of line 56 throws a TypeError otherwise.)             *)
(***************************************************************************)
extendData(data) ==
    IF data.msg.type = "CombatData"
    THEN [data EXCEPT !.extendData = TRUE]
    ELSE data

VARIABLES
    \* ---- the private fields of OverlayAPI
    options,        \* #options: [extendData], merged by the constructor
    wsURL,          \* #wsURL: TRUE iff the page URL carries OVERLAY_WS
    ws,             \* #ws: the current WebSocket (index in sockets) or NoSocket
    status,         \* #status
    queue,          \* #queue
    subscribers,    \* #subscribers: own keys -> list of callbacks
    resCounter,     \* #resCounter
    resPromises,    \* #resPromises: rseq -> promise whose resolve is stored
    simulator,      \* #simulator: id of the last interval timer, 0 = null
    \* ---- the environment
    sockets,        \* WebSocket objects: "connecting" | "open" | "failed" | "closed"
    retryTimers,    \* pending setTimeout(..., 500) callbacks
    intervals,      \* active setInterval timers
    timersStarted,  \* number of interval timers ever started
    hostApi,        \* window.OverlayPluginApi: "absent" | "notReady" | "ready"
    overlayCallback,\* window.__OverlayCallback is installed
    objs,           \* the message objects created by the page and by startEvent
    sent,           \* what was handed to ws.send / OverlayPluginApi.callHandler
    promises,       \* the promises returned by callHandler
    abandoned,      \* sendMessage calls that ended in logError(e, msg)
    calls,          \* number of sendMessage calls issued by public methods
    inbound,        \* number of inbound messages / events / ticks delivered
    lastIn,         \* the message of the last inbound delivery
    invoked,        \* the callbacks invoked by the last handler, in order
    uncaught,       \* the last handler ended by an uncaught exception
    lastErr,        \* what the last handler passed to logError ("" if nothing)
    lastOp,         \* the handler or public method the last step ran
    lastRet,        \* how the last public method ended
    listed,         \* the list the last getAllListener call returned
    delivered       \* the message object of the last dispatch, after it

bridge == <<options, wsURL, ws, status, queue, subscribers, resCounter, resPromises, simulator>>
env == <<sockets, retryTimers, intervals, timersStarted, hostApi, overlayCallback,
         objs, sent, promises, abandoned, calls, inbound, lastIn, invoked,
         uncaught, lastErr, lastOp, lastRet, listed, delivered>>
vars == <<bridge, env>>


(***************************************************************************)
(* #sendMessage (lines 508-534).  The fields it reads and writes are       *)
(* passed as a record st = [queue, sent, abandoned]; the result is the     *)
(* record after the call.  m is the message object (index in the heap),    *)
(* cb the response handle.  id names the public call the message comes     *)
(* from: it is carried along as a history tag and is never read by the     *)
(* bridge.  slot records whether window.__OverlayCallback was installed    *)
(* when the channel was called.                                            *)
(***************************************************************************)
\* A sendMessage that forgets the message when the bridge is not ready.
sendMessage_DropWhenNotReady(st, sock, stat, heap, slot, m, cb, id) ==
    IF stat
    THEN IF heap[m].ser
         THEN [st EXCEPT !.sent = Append(@,
                  [data |-> JSONstringify(heap[m]),
                   cb |-> IF sock # NoSocket THEN NoCb ELSE cb,
                   id |-> id, ws |-> sock, slot |-> slot])]
         ELSE [st EXCEPT !.abandoned = @ \cup {id}]
    ELSE st

sendMessage(st, sock, stat, heap, slot, m, cb, id) ==
    IF sock # NoSocket
    THEN \* WS mode: cb is neither passed to ws.send nor queued
         IF stat
         THEN IF heap[m].ser
              THEN [st EXCEPT !.sent = Append(@,
                       [data |-> JSONstringify(heap[m]), cb |-> NoCb,
                        id |-> id, ws |-> sock, slot |-> slot])]
              ELSE [st EXCEPT !.abandoned = @ \cup {id}]
         ELSE [st EXCEPT !.queue = Append(@, [msg |-> m, cb |-> NoCb, id |-> id])]
    ELSE \* CB mode
         IF stat
         THEN IF heap[m].ser
              THEN [st EXCEPT !.sent = Append(@,
                       [data |-> JSONstringify(heap[m]), cb |-> cb,
                        id |-> id, ws |-> NoSocket, slot |-> slot])]
              ELSE [st EXCEPT !.abandoned = @ \cup {id}]
         ELSE [st EXCEPT !.queue = Append(@, [msg |-> m, cb |-> cb, id |-> id])]

\* A flush that takes the entries from the wrong end of the queue.
RECURSIVE flushQueue_Lifo(_, _, _, _, _)
flushQueue_Lifo(st, sock, stat, heap, slot) ==
    IF Len(st.queue) = 0
    THEN st
    ELSE LET e == st.queue[Len(st.queue)]
             popped == [st EXCEPT !.queue = SubSeq(@, 1, Len(@) - 1)]
         IN  flushQueue_Lifo(sendMessage(popped, sock, stat, heap, slot,
                                         e.msg, e.cb, e.id),
                             sock, stat, heap, slot)

\* A flush whose loop is left by the error of a message that cannot be
\* serialized: the entries behind it stay in the queue.
RECURSIVE flushQueue_StopAtFailure(_, _, _, _, _)
flushQueue_StopAtFailure(st, sock, stat, heap, slot) ==
    IF Len(st.queue) = 0
    THEN st
    ELSE LET e == Head(st.queue)
             shifted == [st EXCEPT !.queue = Tail(@)]
             after == sendMessage(shifted, sock, stat, heap, slot,
                                  e.msg, e.cb, e.id)
         IN  IF after.abandoned # st.abandoned
             THEN after
             ELSE flushQueue_StopAtFailure(after, sock, stat, heap, slot)

\* The flush loop of the 'open' handler (lines 570-573) and of
\* #initCallbackMode (lines 619-622): while (queue.length > 0)
\* { entry = queue.shift(); sendMessage(entry) }.
RECURSIVE flushQueue(_, _, _, _, _)
flushQueue(st, sock, stat, heap, slot) ==
    IF Len(st.queue) = 0
    THEN st
    ELSE LET e == Head(st.queue)
             shifted == [st EXCEPT !.queue = Tail(@)]
         IN  flushQueue(sendMessage(shifted, sock, stat, heap, slot, e.msg, e.cb, e.id),
                        sock, stat, heap, slot)

\* The record sendMessage works on, read from the current state.
sendState == [queue |-> queue, sent |-> sent, abandoned |-> abandoned]

\* A call that logged an error of sendMessage: lastErr of the handler.
sendErr(before, after) ==
    IF after.abandoned # before.abandoned THEN "serialize" ELSE ""

\* list.indexOf(x) (line 658), counted from 1: 0 when x is not in the list
indexOf(list, x) ==
    IF \E i \in 1..Len(list) : list[i] = x
    THEN CHOOSE i \in 1..Len(list) :
             /\ list[i] = x
             /\ \A j \in 1..(i - 1) : list[j] # x
    ELSE 0

\* list.splice(pos, 1)
splice(list, pos) == SubSeq(list, 1, pos - 1) \o SubSeq(list, pos + 1, Len(list))

(***************************************************************************)
(* #triggerEvents (lines 541-553): for (cb of subscribers[msg.type]) cb(). *)
(* The for-of loop reads the live array by index: it ends when the index   *)
(* reaches the length the array has then, so a callback that splices the   *)
(* array (removeListener, line 660) moves the elements behind it under     *)
(* the index.  An exception thrown by a callback leaves the loop and the   *)
(* function.  The result is the list of callbacks invoked, whether the     *)
(* call ended by an exception, the array after the call, and the message   *)
(* object after the call: with the option extendData each iteration        *)
(* passes the object through extendData before it calls cb.                *)
(***************************************************************************)
\* The array of the event after cb has run: removeListener(type, cb) of
\* lines 658-660 when cb unsubscribes itself.
afterCallback(list, cb) ==
    IF Unsubscribes(cb) /\ indexOf(list, cb) > 0
    THEN splice(list, indexOf(list, cb))
    ELSE list

RECURSIVE dispatchFrom(_, _, _)
dispatchFrom(list, i, inv) ==
    IF i > Len(list)
    THEN [invoked |-> inv, threw |-> FALSE, list |-> list]
    ELSE IF Throws(list[i])
         THEN [invoked |-> Append(inv, list[i]), threw |-> TRUE, list |-> list]
         ELSE dispatchFrom(afterCallback(list, list[i]), i + 1,
                           Append(inv, list[i]))

triggerEvents(subs, msg) ==
    IF msg.type \in DOMAIN subs
    THEN LET d == dispatchFrom(subs[msg.type], 1, <<>>)
         IN  [invoked |-> d.invoked, threw |-> d.threw,
              subs |-> [subs EXCEPT ![msg.type] = d.list],
              obj |-> IF options.extendData /\ d.invoked # <<>>
                      THEN extendData(Raw(msg))
                      ELSE Raw(msg)]
    ELSE [invoked |-> <<>>, threw |-> FALSE, subs |-> subs, obj |-> Raw(msg)]

(***************************************************************************)
(* The state after the constructor (lines 485-500).  In socket mode        *)
(* #initWebSocketMode has created the first socket; in host-callback mode  *)
(* #initCallbackMode has either found the host object ready, or has set    *)
(* the first poll timer.                                                   *)
(***************************************************************************)
Init ==
    /\ options \in [extendData : BOOLEAN]
    /\ wsURL \in BOOLEAN
    /\ hostApi \in {"absent", "notReady", "ready"}
    /\ ws = IF wsURL THEN 1 ELSE NoSocket
    /\ sockets = IF wsURL THEN <<"connecting">> ELSE <<>>
    /\ status = (~wsURL /\ hostApi = "ready")
    /\ overlayCallback = (~wsURL /\ hostApi = "ready")
    /\ retryTimers = IF ~wsURL /\ hostApi # "ready" THEN 1 ELSE 0
    /\ queue = <<>>
    /\ subscribers = [e \in {} |-> <<>>]
    /\ resCounter = 0
    /\ resPromises = [r \in {} |-> 0]
    /\ simulator = 0
    /\ intervals = {}
    /\ timersStarted = 0
    /\ objs = <<>>
    /\ sent = <<>>
    /\ promises = <<>>
    /\ abandoned = {}
    /\ calls = 0
    /\ inbound = 0
    /\ lastIn = NoInbound
    /\ invoked = <<>>
    /\ uncaught = FALSE
    /\ lastErr = ""
    /\ lastOp = NoOp
    /\ lastRet = "none"
    /\ listed = <<>>
    /\ delivered = NoDelivery

\* What every handler resets: the record of the last handler's effects.
noDispatch ==
    /\ invoked' = <<>>
    /\ uncaught' = FALSE
    /\ lastIn' = NoInbound
    /\ listed' = <<>>
    /\ delivered' = NoDelivery

\* The promise of callHandler call p, as the page sees it.
\* rseq is the sequence number callHandler gave the request (Undefined in
\* host-callback mode); val is what the promise was resolved with.
Pending(rseq) == [st |-> "pending", rseq |-> rseq, val |-> NoMessage]
Resolved(p, v) == [p EXCEPT !.st = "resolved", !.val = v]

\* obj.hasOwnProperty(key), on an object modelled as a function from its
\* own keys
hasOwnProperty(obj, key) == key \in DOMAIN obj

\* obj[key] = v
setKey(obj, key, v) ==
    [k \in DOMAIN obj \cup {key} |-> IF k = key THEN v ELSE obj[k]]

\* delete obj[key]
deleteKey(obj, key) == [k \in DOMAIN obj \ {key} |-> obj[k]]

(***************************************************************************)
(* callHandler(msg) (lines 724-747).  msg is an object of the page: a new  *)
(* one, or one the page has passed before.                                 *)
(***************************************************************************)
callHandlerOn(m, heap0) ==
    LET id == calls + 1
        p == Len(promises) + 1
    IN  /\ calls' = id
        /\ promises' = Append(promises,
                              Pending(IF ws # NoSocket THEN resCounter ELSE Undefined))
        /\ IF ws # NoSocket
           THEN LET heap1 == [heap0 EXCEPT ![m].rseq = resCounter]
                    after == sendMessage(sendState, ws, status, heap1,
                                         overlayCallback, m, NoCb, id)
                IN  /\ objs' = heap1
                    /\ resCounter' = resCounter + 1
                    /\ resPromises' = setKey(resPromises, resCounter, p)
                    /\ queue' = after.queue
                    /\ sent' = after.sent
                    /\ abandoned' = after.abandoned
                    /\ lastErr' = sendErr(sendState, after)
           ELSE LET after == sendMessage(sendState, ws, status, heap0,
                                         overlayCallback, m, p, id)
                IN  /\ objs' = heap0
                    /\ UNCHANGED <<resCounter, resPromises>>
                    /\ queue' = after.queue
                    /\ sent' = after.sent
                    /\ abandoned' = after.abandoned
                    /\ lastErr' = sendErr(sendState, after)
        /\ lastRet' = "promise"
        /\ lastOp' = Op("callHandler", "", "")
        /\ noDispatch
        /\ UNCHANGED <<options, wsURL, ws, status, subscribers, simulator, sockets,
                       retryTimers, intervals, timersStarted, hostApi,
                       overlayCallback, inbound>>

CallHandler ==
    /\ calls < MaxCalls
    /\ \/ \E ser \in BOOLEAN :
            callHandlerOn(Len(objs) + 1,
                          Append(objs, MsgObject("request", ser, Undefined, {})))
       \/ \E m \in DOMAIN objs :
            /\ objs[m].call = "request"
            /\ callHandlerOn(m, objs)

\* The fields callHandler reads and writes, as a record.
callState ==
    [objs |-> objs, promises |-> promises, calls |-> calls,
     resCounter |-> resCounter, resPromises |-> resPromises,
     queue |-> queue, sent |-> sent, abandoned |-> abandoned]

\* callHandler(msg) (lines 724-747) called by a subscriber callback with a
\* new message object that JSON.stringify accepts: the fields after it.
callFromCallback(b, sock, stat, slot) ==
    LET id == b.calls + 1
        p == Len(b.promises) + 1
        m == Len(b.objs) + 1
        rseq == IF sock # NoSocket THEN b.resCounter ELSE Undefined
        heap == Append(b.objs, MsgObject("request", TRUE, rseq, {}))
        after == sendMessage([queue |-> b.queue, sent |-> b.sent,
                              abandoned |-> b.abandoned],
                             sock, stat, heap, slot, m,
                             IF sock # NoSocket THEN NoCb ELSE p, id)
    IN  [objs |-> heap,
         promises |-> Append(b.promises, Pending(rseq)),
         calls |-> id,
         resCounter |-> IF sock # NoSocket THEN b.resCounter + 1
                        ELSE b.resCounter,
         resPromises |-> IF sock # NoSocket
                         THEN setKey(b.resPromises, b.resCounter, p)
                         ELSE b.resPromises,
         queue |-> after.queue, sent |-> after.sent,
         abandoned |-> after.abandoned]

\* The calls of callHandler made by the callbacks inv[i], inv[i+1], ...
\* of one dispatch, in the order of their invocation.
RECURSIVE sendsOf(_, _, _, _, _, _)
sendsOf(inv, i, b, sock, stat, slot) ==
    IF i > Len(inv)
    THEN b
    ELSE sendsOf(inv, i + 1,
                 IF Sends(inv[i]) THEN callFromCallback(b, sock, stat, slot)
                 ELSE b,
                 sock, stat, slot)

(***************************************************************************)
(* startEvent() (lines 695-701).                                           *)
(***************************************************************************)
StartEvent ==
    /\ calls < MaxCalls
    /\ LET m == Len(objs) + 1
           heap1 == Append(objs, MsgObject("subscribe", TRUE, Undefined,
                                           DOMAIN subscribers))
           after == sendMessage(sendState, ws, status, heap1, overlayCallback,
                                m, NoCb, calls + 1)
       IN  /\ objs' = heap1
           /\ queue' = after.queue
           /\ sent' = after.sent
           /\ abandoned' = after.abandoned
           /\ lastErr' = sendErr(sendState, after)
    /\ calls' = calls + 1
    /\ lastRet' = "undefined"
    /\ lastOp' = Op("startEvent", "", "")
    /\ noDispatch
    /\ UNCHANGED <<options, wsURL, ws, status, subscribers, resCounter, resPromises,
                   simulator, sockets, retryTimers, intervals, timersStarted,
                   hostApi, overlayCallback, promises, inbound>>

(***************************************************************************)
(* #initWebSocketMode (lines 559-600) and the handlers it installs on the  *)
(* socket it creates.                                                      *)
(***************************************************************************)
\* 'open' (lines 566-575)
WsOpen(k) ==
    /\ k \in DOMAIN sockets
    /\ sockets[k] = "connecting"
    /\ sockets' = [sockets EXCEPT ![k] = "open"]
    /\ status' = TRUE
    /\ LET after == flushQueue(sendState, ws, TRUE, objs, overlayCallback)
       IN  /\ queue' = after.queue
           /\ sent' = after.sent
           /\ abandoned' = after.abandoned
           /\ lastErr' = sendErr(sendState, after)
    /\ lastRet' = "none"
    /\ lastOp' = Op("open", "", "")
    /\ noDispatch
    /\ UNCHANGED <<options, wsURL, ws, subscribers, resCounter, resPromises, simulator,
                   retryTimers, intervals, timersStarted, hostApi,
                   overlayCallback, objs, promises, calls, inbound>>

\* 'error' (lines 562-564).  A WebSocket fires 'error' only when its
\* connection fails, and then fires 'close': a failed socket has no other
\* event left.
WsError(k) ==
    /\ k \in DOMAIN sockets
    /\ sockets[k] \in {"connecting", "open"}
    /\ sockets' = [sockets EXCEPT ![k] = "failed"]
    /\ lastErr' = "wsError"
    /\ lastRet' = "none"
    /\ lastOp' = Op("error", "", "")
    /\ noDispatch
    /\ UNCHANGED <<bridge, retryTimers, intervals, timersStarted,
                   hostApi, overlayCallback, objs, sent, promises, abandoned,
                   calls, inbound>>

\* A 'close' handler that sets no timeout for a new connection.
WsClose_NoRetry(k) ==
    /\ k \in DOMAIN sockets
    /\ sockets[k] # "closed"
    /\ sockets' = [sockets EXCEPT ![k] = "closed"]
    /\ status' = FALSE
    /\ lastErr' = ""
    /\ lastRet' = "none"
    /\ lastOp' = Op("close", "", "")
    /\ noDispatch
    /\ UNCHANGED <<options, wsURL, ws, queue, subscribers, resCounter, resPromises,
                   simulator, intervals, timersStarted, hostApi,
                   overlayCallback, objs, sent, promises, abandoned, calls,
                   inbound, retryTimers>>

\* 'close' (lines 592-599)
WsClose(k) ==
    /\ k \in DOMAIN sockets
    /\ sockets[k] # "closed"
    /\ sockets' = [sockets EXCEPT ![k] = "closed"]
    /\ status' = FALSE
    /\ retryTimers' = retryTimers + 1
    /\ lastErr' = ""
    /\ lastRet' = "none"
    /\ lastOp' = Op("close", "", "")
    /\ noDispatch
    /\ UNCHANGED <<options, wsURL, ws, queue, subscribers, resCounter, resPromises,
                   simulator, intervals, timersStarted, hostApi,
                   overlayCallback, objs, sent, promises, abandoned, calls,
                   inbound>>

\* A timer that stays set after it has run #initWebSocketMode, as one
\* started with setInterval would.
ReconnectTimer_Interval ==
    /\ wsURL
    /\ retryTimers > 0
    /\ Len(sockets) < MaxSockets
    /\ sockets' = Append(sockets, "connecting")
    /\ ws' = Len(sockets) + 1
    /\ lastErr' = ""
    /\ lastRet' = "none"
    /\ lastOp' = Op("reconnect", "", "")
    /\ noDispatch
    /\ UNCHANGED <<options, wsURL, status, queue, subscribers, resCounter, resPromises,
                   simulator, intervals, timersStarted, hostApi,
                   overlayCallback, objs, sent, promises, abandoned, calls,
                   inbound, retryTimers>>

\* the timeout set by 'close' (lines 596-598) runs #initWebSocketMode
ReconnectTimer ==
    /\ wsURL
    /\ retryTimers > 0
    /\ Len(sockets) < MaxSockets
    /\ retryTimers' = retryTimers - 1
    /\ sockets' = Append(sockets, "connecting")
    /\ ws' = Len(sockets) + 1
    /\ lastErr' = ""
    /\ lastRet' = "none"
    /\ lastOp' = Op("reconnect", "", "")
    /\ noDispatch
    /\ UNCHANGED <<options, wsURL, status, queue, subscribers, resCounter, resPromises,
                   simulator, intervals, timersStarted, hostApi,
                   overlayCallback, objs, sent, promises, abandoned, calls,
                   inbound>>

\* A message handler that resolves the oldest pending entry, whatever the
\* rseq of the response.
onMessage_ResolveOldest(resP, proms, subs, msg) ==
    IF msg.rseq # Undefined /\ DOMAIN resP # {}
    THEN LET r == CHOOSE x \in DOMAIN resP : \A y \in DOMAIN resP : x <= y
         IN  [resPromises |-> deleteKey(resP, r),
              promises |-> [proms EXCEPT ![resP[r]] =
                               IF @.st = "pending" THEN Resolved(@, msg) ELSE @],
              src |-> "response",
              d |-> [invoked |-> <<>>, threw |-> FALSE, subs |-> subs,
                 obj |-> Raw(msg)]]
    ELSE [resPromises |-> resP,
          promises |-> proms,
          src |-> "socket",
          d |-> triggerEvents(subs, msg)]

\* A message handler that resolves the pending entry and dispatches the
\* response to the subscribers of its type as well.
onMessage_AlsoDispatch(resP, proms, subs, msg) ==
    IF msg.rseq # Undefined /\ hasOwnProperty(resP, msg.rseq)
    THEN [resPromises |-> deleteKey(resP, msg.rseq),
          promises |-> [proms EXCEPT ![resP[msg.rseq]] =
                           IF @.st = "pending" THEN Resolved(@, msg) ELSE @],
          src |-> "response",
          d |-> triggerEvents(subs, msg)]
    ELSE [resPromises |-> resP,
          promises |-> proms,
          src |-> "socket",
          d |-> triggerEvents(subs, msg)]

\* A message handler that keeps an entry for a response that came before
\* its request: it stores the rseq of a response it cannot match.
onMessage_RegisterUnknown(resP, proms, subs, msg) ==
    IF msg.rseq # Undefined /\ hasOwnProperty(resP, msg.rseq)
    THEN [resPromises |-> deleteKey(resP, msg.rseq),
          promises |-> [proms EXCEPT ![resP[msg.rseq]] =
                           IF @.st = "pending" THEN Resolved(@, msg) ELSE @],
          src |-> "response",
          d |-> [invoked |-> <<>>, threw |-> FALSE, subs |-> subs,
                 obj |-> Raw(msg)]]
    ELSE [resPromises |-> IF msg.rseq # Undefined
                          THEN setKey(resP, msg.rseq, 0)
                          ELSE resP,
          promises |-> proms,
          src |-> "socket",
          d |-> triggerEvents(subs, msg)]

\* 'message' (lines 577-590), after JSON.parse succeeded: the response
\* branch (lines 584-586) resolves and deletes the entry, the other branch
\* dispatches.  The result is [resPromises, promises, src, d].
onMessage(resP, proms, subs, msg) ==
    IF msg.rseq # Undefined /\ hasOwnProperty(resP, msg.rseq)
    THEN [resPromises |-> deleteKey(resP, msg.rseq),
          promises |-> [proms EXCEPT ![resP[msg.rseq]] =
                           IF @.st = "pending" THEN Resolved(@, msg) ELSE @],
          src |-> "response",
          d |-> [invoked |-> <<>>, threw |-> FALSE, subs |-> subs,
                 obj |-> Raw(msg)]]
    ELSE [resPromises |-> resP,
          promises |-> proms,
          src |-> "socket",
          d |-> triggerEvents(subs, msg)]

\* A JSON.parse that accepts any text.
JSONparse_Lenient(data) == [threw |-> FALSE, msg |-> data]

\* JSON.parse(msg.data) (line 579): it throws on text that is not JSON,
\* and yields the object the text denotes otherwise.
JSONparse(data) == [threw |-> ~data.ok, msg |-> data]

WsMessage(k, data) ==
    /\ k \in DOMAIN sockets
    /\ sockets[k] = "open"
    /\ inbound < MaxInbound
    /\ inbound' = inbound + 1
    /\ lastRet' = "none"
    /\ lastOp' = Op("message", "", "")
    /\ listed' = <<>>
    /\ IF JSONparse(data).threw
       THEN \* JSON.parse throws: logError, return
            /\ lastErr' = "parse"
            /\ lastIn' = Inbound("unparsed", data)
            /\ invoked' = <<>>
            /\ uncaught' = FALSE
            /\ delivered' = NoDelivery
            /\ UNCHANGED <<resPromises, promises, resCounter, objs, queue,
                           sent, abandoned, calls, subscribers>>
       ELSE LET msg == JSONparse(data).msg
                r == onMessage(resPromises, promises, subscribers, msg)
                b == sendsOf(r.d.invoked, 1,
                             [callState EXCEPT !.resPromises = r.resPromises,
                                               !.promises = r.promises],
                             ws, status, overlayCallback)
            IN  /\ b.calls <= MaxCalls
                /\ lastErr' = ""
                /\ lastIn' = Inbound(r.src, msg)
                /\ resPromises' = b.resPromises
                /\ promises' = b.promises
                /\ resCounter' = b.resCounter
                /\ objs' = b.objs
                /\ queue' = b.queue
                /\ sent' = b.sent
                /\ abandoned' = b.abandoned
                /\ calls' = b.calls
                /\ invoked' = r.d.invoked
                /\ uncaught' = r.d.threw
                /\ delivered' = r.d.obj
                /\ subscribers' = r.d.subs
    /\ UNCHANGED <<options, wsURL, ws, status, simulator,
                   sockets, retryTimers, intervals, timersStarted, hostApi,
                   overlayCallback>>

(***************************************************************************)
(* Host-callback mode.                                                     *)
(***************************************************************************)
\* The host injects window.OverlayPluginApi into the page it hosts, or sets
\* its ready flag.  (A page in socket mode is outside the host or inside it
\* from the start: Init chooses.)
HostInject(s) ==
    /\ ~wsURL
    /\ \/ hostApi = "absent" /\ s \in {"notReady", "ready"}
       \/ hostApi = "notReady" /\ s = "ready"
    /\ hostApi' = s
    /\ lastErr' = ""
    /\ lastRet' = "none"
    /\ lastOp' = Op("hostInject", "", "")
    /\ noDispatch
    /\ UNCHANGED <<bridge, sockets, retryTimers, intervals, timersStarted,
                   overlayCallback, objs, sent, promises, abandoned, calls,
                   inbound>>

\* An #initCallbackMode that flushes the queue before it installs the
\* inbound-event handler.
initCallbackMode_FlushFirst(st, heap) ==
    [status |-> TRUE, overlayCallback |-> TRUE,
     st |-> flushQueue(st, NoSocket, TRUE, heap, FALSE)]

\* #initCallbackMode once the host object is ready (lines 614-623):
\* status = true; window.__OverlayCallback = handler; flush the queue.
initCallbackMode(st, heap) ==
    LET stat == TRUE
        slot == TRUE
    IN  [status |-> stat, overlayCallback |-> slot,
         st |-> flushQueue(st, NoSocket, stat, heap, slot)]

\* The poll timeout (lines 609-611) runs #initCallbackMode (lines 606-624).
PollTimer ==
    /\ ~wsURL
    /\ retryTimers > 0
    /\ IF hostApi # "ready"
       THEN \* a new timeout replaces the one that fired
            /\ UNCHANGED <<retryTimers, status, overlayCallback, queue, sent,
                           abandoned>>
            /\ lastErr' = ""
       ELSE LET r == initCallbackMode(sendState, objs)
            IN  /\ retryTimers' = retryTimers - 1
                /\ status' = r.status
                /\ overlayCallback' = r.overlayCallback
                /\ queue' = r.st.queue
                /\ sent' = r.st.sent
                /\ abandoned' = r.st.abandoned
                /\ lastErr' = sendErr(sendState, r.st)
    /\ lastRet' = "none"
    /\ lastOp' = Op("poll", "", "")
    /\ noDispatch
    /\ UNCHANGED <<options, wsURL, ws, subscribers, resCounter, resPromises, simulator,
                   sockets, intervals, timersStarted, hostApi, objs, promises,
                   calls, inbound>>

\* An inbound event: one other handler's effect on the dispatch record.
deliver(op, src, msg) ==
    LET d == triggerEvents(subscribers, msg)
        b == sendsOf(d.invoked, 1, callState, ws, status, overlayCallback)
    IN  /\ b.calls <= MaxCalls
        /\ inbound' = inbound + 1
        /\ lastIn' = Inbound(src, msg)
        /\ invoked' = d.invoked
        /\ uncaught' = d.threw
        /\ delivered' = d.obj
        /\ listed' = <<>>
        /\ lastErr' = ""
        /\ lastRet' = "none"
        /\ lastOp' = Op(op, "", "")
        /\ objs' = b.objs
        /\ promises' = b.promises
        /\ calls' = b.calls
        /\ resCounter' = b.resCounter
        /\ resPromises' = b.resPromises
        /\ queue' = b.queue
        /\ sent' = b.sent
        /\ abandoned' = b.abandoned
        /\ subscribers' = d.subs
        /\ UNCHANGED <<options, wsURL, ws, status, simulator,
                       sockets, retryTimers, intervals, timersStarted,
                       hostApi, overlayCallback>>

\* The data the host passes to a response handle: none (null or
\* undefined), text that is JSON, or text that is not.
NoData == [ok |-> TRUE, rseq |-> Undefined, type |-> "null"]
GoodText == [ok |-> TRUE, rseq |-> Undefined, type |-> NoType]
HostData == {NoData, GoodText, BadText}

\* The response handle callHandler passes to #sendMessage in host-callback
\* mode (lines 734-743), called with data: rd is null or the parsed data
\* and the promise is resolved with it; when JSON.parse throws, the catch
\* block logs and then evaluates reject(e), but no reject is in scope (the
\* executor of line 733 declares resolve only): a ReferenceError leaves
\* the handle and the promise is not settled.  The result is the promise
\* after the call and how the call ended.
responseHandle(promise, data) ==
    IF data = NoData
    THEN [promise |-> IF promise.st = "pending" THEN Resolved(promise, NoData)
                      ELSE promise,
          err |-> "", ret |-> "undefined"]
    ELSE IF JSONparse(data).threw
         THEN [promise |-> promise, err |-> "parse", ret |-> "ReferenceError"]
         ELSE [promise |-> IF promise.st = "pending"
                           THEN Resolved(promise, JSONparse(data).msg)
                           ELSE promise,
               err |-> "", ret |-> "undefined"]

\* The host calls the response handle it was given with the i-th message.
HostRespond(i, data) ==
    /\ ~wsURL
    /\ i \in DOMAIN sent
    /\ sent[i].cb # NoCb
    /\ inbound < MaxInbound
    /\ LET h == sent[i].cb
           r == responseHandle(promises[h], data)
       IN  /\ promises' = [promises EXCEPT ![h] = r.promise]
           /\ lastErr' = r.err
           /\ lastRet' = r.ret
           /\ uncaught' = (r.ret = "ReferenceError")
           /\ lastOp' = Op("hostRespond", "", ToString(h))
    /\ inbound' = inbound + 1
    /\ lastIn' = Inbound("handle", data)
    /\ invoked' = <<>>
    /\ listed' = <<>>
    /\ delivered' = NoDelivery
    /\ UNCHANGED <<bridge, sockets, retryTimers, intervals, timersStarted,
                   hostApi, overlayCallback, objs, sent, abandoned, calls>>

\* #initCallbackMode (lines 614-623) in a host whose callHandler calls
\* back before it returns: handed the first queue entry, the host calls
\* window.__OverlayCallback (installed at line 617, before the flush) with
\* a CombatData event, the subscribers run inside the flush with #status
\* already true (line 615), and then the loop goes on.  (The case where no
\* callback throws.)
PollTimerSync ==
    /\ ~wsURL
    /\ retryTimers > 0
    /\ hostApi = "ready"
    /\ inbound < MaxInbound
    /\ queue # <<>>
    /\ objs[Head(queue).msg].ser
    /\ LET e == Head(queue)
           handed == sendMessage([sendState EXCEPT !.queue = Tail(@)],
                                 NoSocket, TRUE, objs, TRUE, e.msg, e.cb, e.id)
           d == triggerEvents(subscribers, CombatDataEvent)
           b == sendsOf(d.invoked, 1,
                        [callState EXCEPT !.queue = handed.queue,
                                          !.sent = handed.sent,
                                          !.abandoned = handed.abandoned],
                        NoSocket, TRUE, TRUE)
           after == flushQueue([queue |-> b.queue, sent |-> b.sent,
                                abandoned |-> b.abandoned],
                               NoSocket, TRUE, b.objs, TRUE)
       IN  /\ ~d.threw
           /\ b.calls <= MaxCalls
           /\ objs' = b.objs
           /\ promises' = b.promises
           /\ calls' = b.calls
           /\ queue' = after.queue
           /\ sent' = after.sent
           /\ abandoned' = after.abandoned
           /\ lastErr' = sendErr(sendState, after)
           /\ invoked' = d.invoked
           /\ delivered' = d.obj
           /\ subscribers' = d.subs
           /\ lastIn' = Inbound("host", CombatDataEvent)
    /\ retryTimers' = retryTimers - 1
    /\ status' = TRUE
    /\ overlayCallback' = TRUE
    /\ inbound' = inbound + 1
    /\ uncaught' = FALSE
    /\ listed' = <<>>
    /\ lastRet' = "none"
    /\ lastOp' = Op("poll", "", "sync")
    /\ UNCHANGED <<options, wsURL, ws, resCounter, resPromises,
                   simulator, sockets, intervals, timersStarted, hostApi>>

\* The host calls window.__OverlayCallback(msg) (installed at line 617).
OverlayCallback(msg) ==
    /\ overlayCallback
    /\ inbound < MaxInbound
    /\ deliver("overlayCallback", "host", msg)

\* The host or the page calls window.dispatchOverlayEvent(msg) (line 499).
DispatchOverlayEvent(msg) ==
    /\ inbound < MaxInbound
    /\ deliver("dispatchOverlayEvent", "host", msg)

(***************************************************************************)
(* The subscriber registry (lines 632-689).                                *)
(***************************************************************************)
\* addListener(event, cb) (lines 632-646): the registry after the call
addListener(subs, event, cb) ==
    LET subs1 == IF ~hasOwnProperty(subs, event)
                 THEN setKey(subs, event, <<>>)
                 ELSE subs
    IN  IF cb \in Functions
        THEN [subs1 EXCEPT ![event] = Append(@, cb)]
        ELSE subs1

\* A removeListener that removes the last matching instance.
removeListener_Last(subs, event, cb) ==
    IF hasOwnProperty(subs, event) /\ cb \in Functions
                                   /\ indexOf(subs[event], cb) > 0
    THEN LET last == CHOOSE i \in 1..Len(subs[event]) :
                         /\ subs[event][i] = cb
                         /\ \A j \in (i + 1)..Len(subs[event]) : subs[event][j] # cb
         IN  [subs EXCEPT ![event] = splice(@, last)]
    ELSE subs

\* removeListener(event, cb) (lines 654-668)
removeListener(subs, event, cb) ==
    IF hasOwnProperty(subs, event) /\ cb \in Functions
                                   /\ indexOf(subs[event], cb) > 0
    THEN [subs EXCEPT ![event] = splice(@, indexOf(@, cb))]
    ELSE subs

\* removeAllListener(event) (lines 675-680)
removeAllListener(subs, event) ==
    IF hasOwnProperty(subs, event) /\ Len(subs[event]) > 0
    THEN [subs EXCEPT ![event] = <<>>]
    ELSE subs

\* getAllListener(event) (lines 687-689)
getAllListener(subs, event) ==
    IF hasOwnProperty(subs, event) THEN subs[event] ELSE <<>>

\* A registry method that re-registers the event types with the transport:
\* it sends (or queues) a subscribe message as startEvent does.
registryFrame_Resubscribe ==
    /\ invoked' = <<>>
    /\ uncaught' = FALSE
    /\ lastIn' = NoInbound
    /\ delivered' = NoDelivery
    /\ LET m == Len(objs) + 1
           heap1 == Append(objs, MsgObject("subscribe", TRUE, Undefined,
                                           DOMAIN subscribers))
           after == sendMessage(sendState, ws, status, heap1, overlayCallback,
                                m, NoCb, calls + 1)
       IN  /\ objs' = heap1
           /\ queue' = after.queue
           /\ sent' = after.sent
           /\ abandoned' = after.abandoned
    /\ calls' = calls + 1
    /\ UNCHANGED <<options, wsURL, ws, status, resCounter, resPromises,
                   simulator, sockets, retryTimers, intervals, timersStarted,
                   hostApi, overlayCallback, promises, inbound>>

\* What a registry method leaves alone.
registryFrame ==
    /\ invoked' = <<>>
    /\ uncaught' = FALSE
    /\ lastIn' = NoInbound
    /\ delivered' = NoDelivery
    /\ UNCHANGED <<options, wsURL, ws, status, queue, resCounter, resPromises,
                   simulator, sockets, retryTimers, intervals, timersStarted,
                   hostApi, overlayCallback, objs, sent, promises, abandoned,
                   calls, inbound>>

AddListener(event, cb) ==
    /\ Len(getAllListener(subscribers, event)) < MaxListeners
    /\ subscribers' = addListener(subscribers, event, cb)
    /\ lastErr' = IF cb \in Functions THEN "" ELSE "wrongParams"
    /\ lastRet' = "undefined"
    /\ lastOp' = Op("addListener", event, cb)
    /\ listed' = <<>>
    /\ registryFrame

RemoveListener(event, cb) ==
    /\ subscribers' = removeListener(subscribers, event, cb)
    /\ lastErr' = IF hasOwnProperty(subscribers, event) /\ cb \notin Functions
                  THEN "wrongParams" ELSE ""
    /\ lastRet' = "undefined"
    /\ lastOp' = Op("removeListener", event, cb)
    /\ listed' = <<>>
    /\ registryFrame

RemoveAllListener(event) ==
    /\ subscribers' = removeAllListener(subscribers, event)
    /\ lastErr' = ""
    /\ lastRet' = "undefined"
    /\ lastOp' = Op("removeAllListener", event, "")
    /\ listed' = <<>>
    /\ registryFrame

GetAllListener(event) ==
    /\ listed' = getAllListener(subscribers, event)
    /\ lastErr' = ""
    /\ lastRet' = "list"
    /\ lastOp' = Op("getAllListener", event, "")
    /\ UNCHANGED subscribers
    /\ registryFrame

(***************************************************************************)
(* endEncounter() (lines 708-715).                                         *)
(***************************************************************************)
\* how the call ends: with what the host's endEncounter returned, with
\* undefined after logError, or with the TypeError of reading a property
\* of an undefined window.OverlayPluginApi
endEncounter(stat, api) ==
    IF stat
    THEN IF api = "absent" THEN "TypeError" ELSE "hostEndEncounter"
    ELSE "undefined"

EndEncounter ==
    /\ lastRet' = endEncounter(status, hostApi)
    /\ lastOp' = Op("endEncounter", "", "")
    /\ lastErr' = IF status THEN "" ELSE "notReady"
    /\ noDispatch
    /\ UNCHANGED <<bridge, sockets, retryTimers, intervals, timersStarted,
                   hostApi, overlayCallback, objs, sent, promises, abandoned,
                   calls, inbound>>

(***************************************************************************)
(* simulateData(fakeData) (lines 753-770).                                 *)
(***************************************************************************)
\* The arguments tried: an object with type 'CombatData', another object,
\* null (typeof null === 'object'), and the non-objects false / undefined.
SimArgs == {"combatData", "otherObject", "null", "false", "undefined"}

simIsObject(arg) == arg \in {"combatData", "otherObject", "null"}

\* the fields [simulator, intervals, timersStarted] after the call
simulateData(sim, arg) ==
    IF simIsObject(arg)
    THEN IF arg = "combatData"
         THEN [simulator |-> sim.timersStarted + 1,
               intervals |-> sim.intervals \cup {sim.timersStarted + 1},
               timersStarted |-> sim.timersStarted + 1]
         ELSE sim
    ELSE IF sim.simulator # 0
         THEN [sim EXCEPT !.intervals = @ \ {sim.simulator}]
         ELSE sim

SimulateData(arg) ==
    /\ arg = "combatData" => timersStarted < MaxTimers
    /\ LET after == simulateData([simulator |-> simulator, intervals |-> intervals,
                                  timersStarted |-> timersStarted], arg)
       IN  /\ simulator' = after.simulator
           /\ intervals' = after.intervals
           /\ timersStarted' = after.timersStarted
    /\ lastErr' = IF arg = "otherObject" THEN "fakeData" ELSE ""
    /\ lastRet' = IF arg = "null" THEN "TypeError" ELSE "undefined"
    /\ lastOp' = Op("simulateData", "", arg)
    /\ noDispatch
    /\ UNCHANGED <<options, wsURL, ws, status, queue, subscribers, resCounter,
                   resPromises, sockets, retryTimers, hostApi, overlayCallback,
                   objs, sent, promises, abandoned, calls, inbound>>

\* The interval callback (lines 756-759): triggerEvents(fakeData).
SimulatorTick(t) ==
    /\ t \in intervals
    /\ inbound < MaxInbound
    /\ deliver("tick", "timer", CombatDataEvent)

(***************************************************************************)
(* The specifications.  Spec is the whole bridge.  Its parts share little  *)
(* state: the registry methods neither read nor write the transport's      *)
(* fields, the transport reads the registry only to dispatch and in        *)
(* startEvent, and the simulator only dispatches.  The other               *)
(* specifications run the handlers of one part each (SpecSocket and        *)
(* SpecHost from the initial states of their mode) and reach deeper into   *)
(* that part within the same bounds.                                       *)
(***************************************************************************)
HostMessages == {m \in InboundObjects : m.rseq = Undefined}
\* The callbacks that do not call the bridge, and the values that are no
\* callback: the cb arguments of the specifications other than SpecReentry
\* and SpecUnsubscribe.
Quiet == {cb \in Functions : ~Sends(cb) /\ ~Unsubscribes(cb)}
AnyCb == Quiet \cup NonCallables

Next ==
    \/ CallHandler
    \/ StartEvent
    \/ EndEncounter
    \/ \E k \in 1..MaxSockets : WsOpen(k)
    \/ \E k \in 1..MaxSockets : WsError(k)
    \/ \E k \in 1..MaxSockets : WsClose(k)
    \/ ReconnectTimer
    \/ \E k \in 1..MaxSockets, data \in InboundData : WsMessage(k, data)
    \/ \E s \in {"notReady", "ready"} : HostInject(s)
    \/ PollTimer
    \/ PollTimerSync
    \/ \E i \in 1..MaxCalls, data \in HostData : HostRespond(i, data)
    \/ \E msg \in HostMessages : OverlayCallback(msg)
    \/ \E msg \in HostMessages : DispatchOverlayEvent(msg)
    \/ \E e \in EventTypes, cb \in Functions \cup NonCallables : AddListener(e, cb)
    \/ \E e \in EventTypes, cb \in Functions \cup NonCallables : RemoveListener(e, cb)
    \/ \E e \in EventTypes : RemoveAllListener(e)
    \/ \E e \in EventTypes : GetAllListener(e)
    \/ \E arg \in SimArgs : SimulateData(arg)
    \/ \E t \in 1..MaxTimers : SimulatorTick(t)

Spec == Init /\ [][Next]_vars

\* The part specifications other than SpecEnrich start from a bridge
\* constructed with the option extendData off: the option is read in
\* #triggerEvents only (line 546).
InitPlain == Init /\ ~options.extendData

\* The outbound path in both modes: sends, connection events, flushes.
NextQueue ==
    \/ CallHandler
    \/ StartEvent
    \/ EndEncounter
    \/ \E k \in 1..MaxSockets : WsOpen(k)
    \/ \E k \in 1..MaxSockets : WsError(k)
    \/ \E k \in 1..MaxSockets : WsClose(k)
    \/ ReconnectTimer
    \/ \E s \in {"notReady", "ready"} : HostInject(s)
    \/ PollTimer

SpecQueue == InitPlain /\ [][NextQueue]_vars

\* Socket mode: requests and inbound messages.
InitSocket == InitPlain /\ wsURL /\ hostApi = "absent"

NextSocket ==
    \/ CallHandler
    \/ \E k \in 1..MaxSockets : WsOpen(k)
    \/ \E k \in 1..MaxSockets : WsClose(k)
    \/ ReconnectTimer
    \/ \E k \in 1..MaxSockets, data \in InboundData : WsMessage(k, data)

SpecSocket == InitSocket /\ [][NextSocket]_vars

\* Host-callback mode: the poll for the host object, sends, host events.
InitHost == InitPlain /\ ~wsURL

NextHost ==
    \/ CallHandler
    \/ StartEvent
    \/ \E s \in {"notReady", "ready"} : HostInject(s)
    \/ PollTimer
    \/ \E msg \in HostMessages : OverlayCallback(msg)
    \/ \E cb \in AnyCb : AddListener("CombatData", cb)

SpecHost == InitHost /\ [][NextHost]_vars

\* The subscriber registry and the dispatch of broadcast events.
NextRegistry ==
    \/ \E e \in EventTypes, cb \in AnyCb : AddListener(e, cb)
    \/ \E e \in EventTypes, cb \in AnyCb : RemoveListener(e, cb)
    \/ \E e \in EventTypes : RemoveAllListener(e)
    \/ \E e \in EventTypes : GetAllListener(e)
    \/ \E msg \in HostMessages : DispatchOverlayEvent(msg)

SpecRegistry == InitPlain /\ [][NextRegistry]_vars

\* The data simulator.
NextSimulation ==
    \/ \E arg \in SimArgs : SimulateData(arg)
    \/ \E t \in 1..MaxTimers : SimulatorTick(t)
    \/ \E cb \in Quiet : AddListener("CombatData", cb)

SpecSimulation == InitPlain /\ [][NextSimulation]_vars

\* Socket mode: the connection's events and the reconnect loop.  The
\* timeout of line 596 fires, and the 'close' that follows an 'error' is
\* delivered: both are weakly fair.
CloseAfterError ==
    \E k \in 1..MaxSockets : k \in DOMAIN sockets /\ sockets[k] = "failed" /\ WsClose(k)

NextReconnect ==
    \/ CallHandler
    \/ \E k \in 1..MaxSockets : WsOpen(k)
    \/ \E k \in 1..MaxSockets : WsError(k)
    \/ \E k \in 1..MaxSockets : WsClose(k)
    \/ ReconnectTimer

SpecReconnect ==
    /\ InitSocket
    /\ [][NextReconnect]_vars
    /\ WF_vars(ReconnectTimer)
    /\ WF_vars(CloseAfterError)

\* The registry methods next to startEvent, in both modes, up to the flush.
NextSubscribe ==
    \/ StartEvent
    \/ \E e \in EventTypes : AddListener(e, "f1")
    \/ \E e \in EventTypes : RemoveListener(e, "f1")
    \/ \E e \in EventTypes : RemoveAllListener(e)
    \/ \E e \in EventTypes : GetAllListener(e)
    \/ WsOpen(1)
    \/ HostInject("ready")
    \/ PollTimer

SpecSubscribe == InitPlain /\ [][NextSubscribe]_vars

\* Socket mode with a subscriber: requests, responses and broadcasts on
\* the first socket.
NextResponse ==
    \/ CallHandler
    \/ WsOpen(1)
    \/ \E data \in InboundData : WsMessage(1, data)
    \/ AddListener("CombatData", "f1")

SpecResponse == InitSocket /\ [][NextResponse]_vars

\* Host-callback mode with a subscriber that sends: requests queued before
\* the host is ready, the flush with a host that calls back at once or
\* later, and broadcasts.
NextReentry ==
    \/ CallHandler
    \/ HostInject("ready")
    \/ PollTimer
    \/ PollTimerSync
    \/ OverlayCallback(CombatDataEvent)
    \/ AddListener("CombatData", "fSend")

SpecReentry == InitHost /\ [][NextReentry]_vars

\* Host-callback mode: requests and the host's answers to them.
NextRespond ==
    \/ CallHandler
    \/ HostInject("ready")
    \/ PollTimer
    \/ \E i \in 1..MaxCalls, data \in HostData : HostRespond(i, data)

SpecRespond == InitHost /\ [][NextRespond]_vars

\* The dispatch of broadcast events to callbacks that unsubscribe
\* themselves while they run.
NextUnsubscribe ==
    \/ \E e \in EventTypes, cb \in {"f1", "fUnsub"} : AddListener(e, cb)
    \/ \E e \in EventTypes : GetAllListener(e)
    \/ \E msg \in HostMessages : DispatchOverlayEvent(msg)

SpecUnsubscribe == InitPlain /\ [][NextUnsubscribe]_vars

\* The dispatch of broadcast events with the option extendData on or off.
NextEnrich ==
    \/ \E e \in EventTypes, cb \in {"f1", "fThrow"} : AddListener(e, cb)
    \/ \E msg \in HostMessages : DispatchOverlayEvent(msg)
    \/ \E msg \in HostMessages : OverlayCallback(msg)

SpecEnrich == Init /\ [][NextEnrich]_vars

(***************************************************************************)
(* The claims.                                                             *)
(***************************************************************************)
idsOf(seq) == [i \in 1..Len(seq) |-> seq[i].id]
count(seq, id) == Cardinality({i \in 1..Len(seq) : seq[i].id = id})
Serializable(e) == objs[e.msg].ser
Broadcast(in) == in.src \in {"socket", "host", "timer"}

\* A send issued while the bridge is not ready is appended to the queue.
QueuedInArrivalOrder ==
    (~status /\ ~status' /\ calls' = calls + 1) =>
        /\ Len(queue') = Len(queue) + 1
        /\ SubSeq(queue', 1, Len(queue)) = queue
        /\ queue'[Len(queue')].id = calls'

\* C1 as stated: in both modes the messages sent while the bridge is not
\* ready are queued in arrival order, and the step that makes the bridge
\* ready hands all of them to the channel in that order and leaves the
\* queue empty.
C1_AllQueuedHandedInOrder ==
    [][ /\ QueuedInArrivalOrder
        /\ (~status /\ status') =>
              /\ queue' = <<>>
              /\ idsOf(sent') = idsOf(sent) \o idsOf(queue)
      ]_vars

\* C1 amended: in both modes the messages sent while the bridge is not
\* ready are queued in arrival order, and the step that makes the bridge
\* ready hands those of them that can be serialized to the channel in that
\* order (one whose serialization fails is reported and skipped) and leaves
\* the queue empty.
C1_SerializableHandedInOrder ==
    [][ /\ QueuedInArrivalOrder
        /\ (~status /\ status') =>
              /\ queue' = <<>>
              /\ idsOf(sent') = idsOf(sent) \o idsOf(SelectSeq(queue, Serializable))
      ]_vars

\* C1 witness: the first socket has just opened and its flush handed two
\* queued messages to the channel and abandoned a third.
C1_Witness ==
    /\ lastOp.op = "open"
    /\ Len(sockets) = 1
    /\ status
    /\ queue = <<>>
    /\ Len(sent) = 2
    /\ sent[1].id < sent[2].id
    /\ abandoned # {}

\* C2: every message passed to sendMessage is in exactly one place: once in
\* the queue, or handed to the channel once, or abandoned with a reported
\* serialization error.
C2_NoLossNoDuplicate ==
    \A id \in 1..calls :
        count(queue, id) + count(sent, id)
            + (IF id \in abandoned THEN 1 ELSE 0) = 1

\* C2 witness: after a close and a reconnect, one message went to the first
\* socket, one to the second, and one was abandoned.
C2_Witness ==
    /\ Len(sockets) = 2
    /\ status
    /\ calls = 3
    /\ Len(sent) = 2
    /\ sent[1].ws = 1
    /\ sent[2].ws = 2
    /\ abandoned # {}

\* C3 as stated: a broadcast event invokes every callback registered for
\* its type exactly once, in registration order, and no other callback.
C3_EveryCallbackOnceInOrder ==
    Broadcast(lastIn) => invoked = getAllListener(subscribers, lastIn.msg.type)

\* C4: addListener appends the callback to the list of its event,
\* removeListener removes the first matching instance (nothing when there
\* is none), removeAllListener empties the list, getAllListener returns the
\* list, and nothing else changes a list.
RECURSIVE RemoveFirst(_, _)
RemoveFirst(list, x) ==
    IF list = <<>>
    THEN <<>>
    ELSE IF Head(list) = x
         THEN Tail(list)
         ELSE <<Head(list)>> \o RemoveFirst(Tail(list), x)

C4_ListIsNetRegistration ==
    [][ \A e \in EventTypes :
          LET before == getAllListener(subscribers, e)
              after == getAllListener(subscribers', e)
              o == lastOp'
              here == o.ev = e
          IN  /\ (here /\ o.op = "addListener" /\ o.arg \in Functions)
                    => after = Append(before, o.arg)
              /\ (here /\ o.op = "addListener" /\ o.arg \notin Functions)
                    => after = before
              /\ (here /\ o.op = "removeListener")
                    => after = RemoveFirst(before, o.arg)
              /\ (here /\ o.op = "removeAllListener") => after = <<>>
              /\ (here /\ o.op = "getAllListener")
                    => (listed' = before /\ after = before)
              /\ ~here => after = before
      ]_vars

\* C4 witness: f1 was registered before and after fThrow, and
\* removeListener(f1) has just removed the first of the two.
C4_Witness ==
    /\ lastOp = Op("removeListener", "CombatData", "f1")
    /\ hasOwnProperty(subscribers, "CombatData")
    /\ subscribers["CombatData"] = <<"fThrow", "f1">>

C6_ThrowDoesNotHaltDispatch ==
    Broadcast(lastIn) =>
        LET list == getAllListener(subscribers, lastIn.msg.type)
        IN  \A i \in 1..Len(list) :
                (\E j \in 1..(i - 1) : Throws(list[j]))
                => (i <= Len(invoked) /\ invoked[i] = list[i])

\* What the host receives for queue entry e when the flush of
\* #initCallbackMode delivers it.
hostDelivery(e) ==
    [data |-> JSONstringify(objs[e.msg]), cb |-> e.cb, id |-> e.id,
     ws |-> NoSocket, slot |-> TRUE]

deliveries(q) == [i \in 1..Len(q) |-> hostDelivery(q[i])]

\* Subscribers run only for a broadcast of their type.
OnlyBroadcastInvokes ==
    invoked' # <<>> =>
        /\ Broadcast(lastIn')
        /\ \A i \in 1..Len(invoked') :
              \E j \in 1..Len(getAllListener(subscribers, lastIn'.msg.type)) :
                  subscribers[lastIn'.msg.type][j] = invoked'[i]

\* C7 as stated: in host-callback mode, the step that finds the host object
\* ready makes the bridge ready, installs the inbound-event handler before
\* any delivery, delivers every queued entry once, in order, each with its
\* own response handle, and invokes no subscriber.
C7_EveryQueuedEntryDelivered ==
    [][ /\ (~wsURL /\ ~status /\ status') =>
              /\ overlayCallback'
              /\ queue' = <<>>
              /\ sent' = sent \o deliveries(queue)
              /\ invoked' = <<>>
        /\ OnlyBroadcastInvokes
      ]_vars

\* C7 amended: in host-callback mode, the step that finds the host object
\* ready makes the bridge ready, installs the inbound-event handler before
\* any delivery, delivers every queued entry whose message can be
\* serialized once, in order, each with its own response handle (an entry
\* whose serialization fails is reported and skipped), and invokes no
\* subscriber.
C7_SerializableEntriesDelivered ==
    [][ /\ (~wsURL /\ ~status /\ status') =>
              /\ overlayCallback'
              /\ queue' = <<>>
              /\ sent' = sent \o deliveries(SelectSeq(queue, Serializable))
              /\ abandoned' = abandoned \cup
                    {queue[i].id : i \in {j \in 1..Len(queue) : ~Serializable(queue[j])}}
              /\ invoked' = <<>>
        /\ OnlyBroadcastInvokes
      ]_vars

\* C7 witness: with a subscriber of CombatData registered, the poll has
\* just found the host ready and delivered two queued requests, each with
\* its own response handle, after installing the handler.
C7_Witness ==
    /\ lastOp.op = "poll"
    /\ status
    /\ overlayCallback
    /\ queue = <<>>
    /\ Len(sent) = 2
    /\ sent[1].cb # NoCb
    /\ sent[2].cb # NoCb
    /\ sent[1].cb # sent[2].cb
    /\ sent[1].slot
    /\ getAllListener(subscribers, "CombatData") # <<>>
    /\ invoked = <<>>

\* C8 as stated: addListener with a non-callable is reported and changes
\* neither the registry (its event types included) nor the queue nor the
\* channel.
C8_NonCallableIsNoOp ==
    [][ (lastOp'.op = "addListener" /\ lastOp'.arg \in NonCallables) =>
            /\ lastErr' = "wrongParams"
            /\ subscribers' = subscribers
            /\ DOMAIN subscribers' = DOMAIN subscribers
            /\ queue' = queue
            /\ sent' = sent
      ]_vars

\* C9 as stated: endEncounter delegates to the host's endEncounter iff the
\* bridge is ready; when not ready it logs the not-ready error, does not
\* throw, and changes neither the connection state nor the queue, the
\* registry or the pending responses.
C9_EndEncounterIffReady ==
    [][ lastOp'.op = "endEncounter" =>
            /\ (lastRet' = "hostEndEncounter") <=> status
            /\ lastRet' # "TypeError"
            /\ ~status => (lastRet' = "undefined" /\ lastErr' = "notReady")
            /\ UNCHANGED <<status, queue, subscribers, resPromises, sockets>>
      ]_vars

\* C10 as stated: at most one simulation timer is active, and after
\* simulateData with a falsy or absent value none is.
C10_AtMostOneTimer ==
    /\ Cardinality(intervals) <= 1
    /\ (lastOp.op = "simulateData" /\ lastOp.arg \in {"false", "undefined", "null"})
          => intervals = {}

\* The ids of the subscribe messages in the queue and in the channel log.
RegistryOps == {"addListener", "removeListener", "removeAllListener",
                "getAllListener"}
queuedSubscribes(q, heap) ==
    {i \in 1..Len(q) : heap[q[i].msg].call = "subscribe"}
sentSubscribes(log) ==
    {i \in 1..Len(log) : log[i].data.call = "subscribe"}

\* C11: addListener, removeListener, removeAllListener and getAllListener
\* neither send nor queue anything; a subscribe message enters the queue or
\* the channel only in a startEvent step, with the event types that are the
\* keys of the registry in that step, and it reaches the channel from the
\* queue with the same events, whatever the registry has become meanwhile.
C11_SubscribeOnlyByStartEvent ==
    [][ /\ lastOp'.op \in RegistryOps =>
              UNCHANGED <<queue, sent, objs, calls, abandoned>>
        /\ \A i \in queuedSubscribes(queue', objs') :
              \/ \E j \in queuedSubscribes(queue, objs) :
                    /\ queue[j] = queue'[i]
                    /\ objs'[queue'[i].msg] = objs[queue[j].msg]
              \/ /\ lastOp'.op = "startEvent"
                 /\ queue'[i].id = calls'
                 /\ objs'[queue'[i].msg].events = DOMAIN subscribers
        /\ \A i \in sentSubscribes(sent') :
              \/ i <= Len(sent) /\ sent[i] = sent'[i]
              \/ \E j \in queuedSubscribes(queue, objs) :
                    /\ queue[j].id = sent'[i].id
                    /\ sent'[i].data.events = objs[queue[j].msg].events
              \/ /\ lastOp'.op = "startEvent"
                 /\ sent'[i].id = calls'
                 /\ sent'[i].data.events = DOMAIN subscribers
      ]_vars

\* C11 witness: startEvent was called before and after a second event
\* type was registered, both while the bridge was not ready; the event type
\* registered first has lost its callbacks since, and the flush has just
\* handed both subscribe messages to the channel, each with the event types
\* of its own moment.
C11_Witness ==
    /\ lastOp.op \in {"open", "poll"}
    /\ Len(sent) = 2
    /\ sent[1].data.call = "subscribe"
    /\ sent[1].data.events = {"CombatData"}
    /\ sent[2].data.events = {"CombatData", "ChangeZone"}
    /\ getAllListener(subscribers, "CombatData") = <<>>
    /\ getAllListener(subscribers, "ChangeZone") # <<>>

ConnectionOps == {"error", "close", "reconnect"}
closedSockets == {k \in DOMAIN sockets : sockets[k] = "closed"}

\* C12: in socket mode the bridge is ready only while its current socket
\* has opened and not closed; a close makes it not ready and sets one
\* timeout, so that every closed socket has a pending timeout or a
\* successor; an error, a close or a reconnect returns nothing to the page,
\* throws nothing and settles no promise; the open of a later socket makes
\* the bridge ready and empties the queue through sendMessage.  An error
\* leads to a state where the bridge is not ready, and (as long as the
\* model's bound on sockets allows one) a closed current socket leads to a
\* new connecting one.
C12_ReconnectLoop ==
    /\ [][ /\ lastOp'.op = "close" =>
                 /\ ~status'
                 /\ retryTimers' = retryTimers + 1
           /\ lastOp'.op \in ConnectionOps =>
                 /\ lastRet' = "none"
                 /\ ~uncaught'
                 /\ UNCHANGED <<promises, queue, sent, resPromises>>
           /\ lastOp'.op = "reconnect" =>
                 /\ Len(sockets') = Len(sockets) + 1
                 /\ ws' = Len(sockets')
                 /\ sockets'[ws'] = "connecting"
           /\ lastOp'.op = "open" =>
                 /\ status'
                 /\ queue' = <<>>
                 /\ \A i \in 1..Len(queue) :
                       \/ count(sent', queue[i].id) = 1
                       \/ queue[i].id \in abandoned'
         ]_vars
    /\ [](status => sockets[ws] \in {"open", "failed"})
    /\ [](Cardinality(closedSockets) = retryTimers + Len(sockets) - 1)
    /\ (sockets[ws] = "failed") ~> ~status
    /\ (sockets[ws] = "closed" /\ Len(sockets) < MaxSockets)
            ~> (sockets[ws] = "connecting")

\* C12 witness: the first socket was closed, the timeout has created a
\* second one, and its open has just made the bridge ready again and
\* handed to it the two requests queued meanwhile.
C12_Witness ==
    /\ lastOp.op = "open"
    /\ Len(sockets) = 2
    /\ sockets[1] = "closed"
    /\ ws = 2
    /\ status
    /\ queue = <<>>
    /\ Len(sent) = 3
    /\ sent[1].ws = 1
    /\ sent[2].ws = 2
    /\ sent[3].ws = 2

\* C13 as stated: the dispatch of a broadcast, with or without the
\* enrichment, leaves the message object as it was received.
C13_DispatchLeavesMessageUnchanged ==
    Broadcast(lastIn) => delivered = Raw(lastIn.msg)

\* C14: in socket mode a parsed inbound message whose rseq is a key of
\* the pending map resolves the promise stored under that key and no
\* other, removes the key and invokes no subscriber; a message whose rseq
\* is no key (a second one with the same rseq included) changes no promise
\* and no key; a resolved promise never changes again.
C14_ResponseResolvesOnce ==
    [][ /\ (lastOp'.op = "message" /\ lastIn'.msg.ok) =>
              LET m == lastIn'.msg
              IN  IF hasOwnProperty(resPromises, m.rseq)
                  THEN /\ resPromises' = deleteKey(resPromises, m.rseq)
                       /\ promises[resPromises[m.rseq]].st = "pending"
                       /\ promises'[resPromises[m.rseq]].st = "resolved"
                       /\ \A p \in DOMAIN promises :
                             p # resPromises[m.rseq] => promises'[p] = promises[p]
                       /\ invoked' = <<>>
                  ELSE /\ resPromises' = resPromises
                       /\ promises' = promises
        /\ \A p \in DOMAIN promises :
              promises[p].st = "resolved" => promises'[p] = promises[p]
      ]_vars

\* C14 witness: with f1 subscribed to CombatData and two requests pending,
\* a response of type CombatData has just resolved the first request; f1
\* was not invoked and the second request is still in the pending map.
C14_Witness ==
    /\ lastOp.op = "message"
    /\ lastIn.msg.rseq = 0
    /\ lastIn.msg.type = "CombatData"
    /\ getAllListener(subscribers, "CombatData") = <<"f1">>
    /\ invoked = <<>>
    /\ Len(promises) = 2
    /\ promises[1].st = "resolved"
    /\ DOMAIN resPromises = {1}

\* C15 as stated: the channel receives the messages in the order in which
\* the page issued them: no message is handed to the channel after one
\* that was issued later, sends issued by a callback during the flush
\* included.
C15_ChannelInIssueOrder ==
    \A i \in DOMAIN sent : \A j \in DOMAIN sent :
        i < j => sent[i].id < sent[j].id

\* C16 as stated: in socket mode the sequence numbers given to the
\* requests increase strictly, the message handed to the channel for a
\* request carries the number given to that request, and no two messages
\* on the wire carry the same number.
C16_WireCarriesAllocatedRseq ==
    /\ \A p \in DOMAIN promises : \A q \in DOMAIN promises :
          p < q => promises[p].rseq < promises[q].rseq
    /\ \A i \in DOMAIN sent :
          sent[i].data.rseq = promises[sent[i].id].rseq
    /\ \A i \in DOMAIN sent : \A j \in DOMAIN sent :
          i # j => sent[i].data.rseq # sent[j].data.rseq

\* C17: every key of the pending map is a number callHandler has
\* allocated (it is below the request counter), and only a callHandler
\* step adds a key, the one it allocates: inbound messages, closes,
\* reconnects and opens add none.
C17_PendingKeysAllocated ==
    [][ /\ \A r \in DOMAIN resPromises' : r >= 0 /\ r < resCounter'
        /\ lastOp'.op # "callHandler" =>
              DOMAIN resPromises' \subseteq DOMAIN resPromises
        /\ lastOp'.op = "callHandler" =>
              /\ DOMAIN resPromises' = DOMAIN resPromises \cup {resCounter}
              /\ resCounter' = resCounter + 1
      ]_vars

\* C17 witness: on the second socket, with the requests 0 and 1 pending,
\* an inbound message with an rseq that was never allocated has just been
\* handled; the pending map still holds the keys 0 and 1 only.
C17_Witness ==
    /\ lastOp.op = "message"
    /\ lastIn.msg.rseq = UnknownRseq
    /\ Len(sockets) = 2
    /\ resCounter = 2
    /\ DOMAIN resPromises = {0, 1}

unserializable(q) == {q[i].id : i \in {j \in 1..Len(q) : ~Serializable(q[j])}}

\* C18: a message whose serialization fails is reported and abandoned for
\* good: it is never in the queue or in the channel log afterwards.  A
\* flush abandons exactly the queued messages that cannot be serialized,
\* hands the others to the channel in their order and leaves the queue
\* empty; a send issued while the bridge is ready is handed to the channel
\* at once or, failing to serialize, abandoned alone, whatever was
\* abandoned before.
C18_SerializationFailureIsLocal ==
    [][ /\ abandoned \subseteq abandoned'
        /\ \A id \in abandoned' :
              count(queue', id) = 0 /\ count(sent', id) = 0
        /\ abandoned' # abandoned => lastErr' = "serialize"
        /\ (~status /\ status') =>
              /\ abandoned' = abandoned \cup unserializable(queue)
              /\ idsOf(sent') = idsOf(sent) \o idsOf(SelectSeq(queue, Serializable))
              /\ queue' = <<>>
        /\ (status /\ calls' = calls + 1) =>
              /\ queue' = queue
              /\ \/ /\ idsOf(sent') = Append(idsOf(sent), calls')
                    /\ abandoned' = abandoned
                 \/ /\ sent' = sent
                    /\ abandoned' = abandoned \cup {calls'}
                    /\ \E m \in DOMAIN objs' : ~objs'[m].ser
      ]_vars

\* C18 witness: in host-callback mode three requests were queued, the
\* second of which cannot be serialized; the flush has just reported and
\* abandoned the second and delivered the first and the third, in order,
\* each with its own response handle.
C18_Witness ==
    /\ lastOp.op = "poll"
    /\ lastErr = "serialize"
    /\ queue = <<>>
    /\ abandoned = {2}
    /\ idsOf(sent) = <<1, 3>>
    /\ sent[1].cb # sent[2].cb

\* C19: in socket mode an inbound message that JSON.parse rejects is
\* reported; it invokes no callback, is not an uncaught error, settles no
\* promise and changes no field of the bridge nor the channel log.  The
\* message that follows an unparseable one is handled as any other: a
\* response resolves its promise with the message and removes its key, a
\* broadcast invokes the callbacks of its type.
C19_UnparseableDiscarded ==
    [][ /\ (lastOp'.op = "message" /\ ~lastIn'.msg.ok) =>
              /\ lastErr' = "parse"
              /\ invoked' = <<>>
              /\ ~uncaught'
              /\ UNCHANGED <<promises, bridge, sockets, sent>>
        /\ (lastOp.op = "message" /\ ~lastIn.msg.ok
               /\ lastOp'.op = "message" /\ lastIn'.msg.ok) =>
              LET m == lastIn'.msg
              IN  IF hasOwnProperty(resPromises, m.rseq)
                  THEN /\ promises'[resPromises[m.rseq]] =
                             Resolved(promises[resPromises[m.rseq]], m)
                       /\ ~hasOwnProperty(resPromises', m.rseq)
                  ELSE /\ invoked' = getAllListener(subscribers, m.type)
                       /\ promises' = promises
      ]_vars

\* C19 witness: with f1 subscribed to CombatData and a request pending
\* on the open socket, unparseable text has just arrived: it was reported,
\* f1 was not invoked and the request is still pending.
C19_Witness ==
    /\ lastOp.op = "message"
    /\ ~lastIn.msg.ok
    /\ lastErr = "parse"
    /\ status
    /\ getAllListener(subscribers, "CombatData") = <<"f1">>
    /\ invoked = <<>>
    /\ Len(promises) = 1
    /\ promises[1].st = "pending"
    /\ DOMAIN resPromises = {0}
    /\ Len(sent) = 1

\* C20 as stated: in host-callback mode, once the host has called the
\* response handle of a request, the promise of that request is settled,
\* whatever the data: it is never left pending.
C20_HandleSettlesPromise ==
    lastOp.op = "hostRespond" =>
        \A p \in DOMAIN promises :
            ToString(p) = lastOp.arg => promises[p].st # "pending"

occurrences(list, x) == Cardinality({i \in 1..Len(list) : list[i] = x})

\* C21 as stated: when callbacks unsubscribe during the dispatch of a
\* broadcast and none throws, every callback that is registered for the
\* type when the dispatch ends has been invoked for the event, once for
\* each time it is registered, and no callback has been invoked more often
\* than it was registered when the dispatch began.
C21_NoCallbackSkipped ==
    [][ (Broadcast(lastIn') /\ ~uncaught') =>
            LET before == getAllListener(subscribers, lastIn'.msg.type)
                after == getAllListener(subscribers', lastIn'.msg.type)
            IN  \A cb \in Functions :
                    /\ occurrences(after, cb) <= occurrences(invoked', cb)
                    /\ occurrences(invoked', cb) <= occurrences(before, cb)
      ]_vars

liveSockets == {k \in DOMAIN sockets : sockets[k] # "closed"}

\* C22: in socket mode there is at most one socket that has not received
\* its close event and at most one pending reconnect timeout, and never
\* both; the bridge is ready only while the socket created last is its
\* current one and has not closed, it gets ready only by the open event of
\* that socket, and every message handed to a socket is handed to the
\* socket created last, which has opened and not closed.
C22_OneSocketOneTimer ==
    /\ [](/\ Cardinality(liveSockets) <= 1
          /\ retryTimers <= 1
          /\ Cardinality(liveSockets) + retryTimers <= 1
          /\ ws = Len(sockets)
          /\ status => sockets[ws] \in {"open", "failed"})
    /\ [][ /\ (status' /\ ~status) =>
                 /\ lastOp'.op = "open"
                 /\ ws' = Len(sockets')
                 /\ sockets[ws'] = "connecting"
                 /\ sockets'[ws'] = "open"
           /\ (status /\ status') => sockets[ws] # "connecting"
           /\ \A i \in (Len(sent) + 1)..Len(sent') :
                 /\ sent'[i].ws = Len(sockets')
                 /\ sockets'[sent'[i].ws] \in {"open", "failed"}
                 /\ status'
         ]_vars

\* C22 witness: the first socket has closed, its timeout has run and the
\* second socket has opened; a request made then has just been handed to
\* the second socket, after one that was handed to the first.
C22_Witness ==
    /\ lastOp.op = "callHandler"
    /\ Len(sockets) = 2
    /\ sockets[1] = "closed"
    /\ sockets[2] = "open"
    /\ retryTimers = 0
    /\ status
    /\ Len(sent) = 2
    /\ sent[1].ws = 1
    /\ sent[2].ws = 2


=============================================================================
